---- MODULE Spec2Model ----
\* Training control loop of mnist_cnn2.py: model.fit driven by the callback
\* list [EarlyStopping(patience=10), ModelCheckpoint(save_best_only, min)],
\* followed by main's load_weights / evaluate / predict.
\*
\* Numeric content is abstracted as follows.  A parameter snapshot is a record
\* [ep, step, vl]: ep/step say after which epoch (1-based) and minibatch the
\* optimizer produced it (ep = 0 for the random initialisation), and vl is the
\* loss that an inference-mode pass over (X_test, Y_test) yields for it.
\* Inference is deterministic, so vl is a property of the snapshot; the
\* optimizer's result is unknown, so vl is drawn nondeterministically when the
\* snapshot is produced.  Losses are 1..MaxLoss, plus NaN for a diverged run;
\* the callbacks only compare losses, so each draw ranges over the order
\* relations to the lowest loss recorded so far rather than over all values.
\* hist.history['val_loss'] is kept through its length, its minimum and its
\* entry at the epoch of the last checkpoint write.
\* That fit's validation pass and main's evaluate report the same loss for the
\* same parameters is an assumption built into vl, not a result of the model;
\* the accuracy evaluate reports is left free.
EXTENDS Integers, Naturals, Sequences, FiniteSets, TLC

\* ---------------------------------------------------------------- constants
Epoches == 200
Patience == 10
MinDelta == 0

\* ------------------------------------------------------------------- bounds
MaxLoss == 20
StepsPerEpoch == 2
MaxAccuracy == 2

\* ------------------------------------------------------------------- values
NaN == -1
Inf == MaxLoss + 1
FiniteLoss == 1..MaxLoss
Loss == FiniteLoss \cup {NaN}
Accuracy == 0..MaxAccuracy
None == -2
InitWeights == [ep |-> 0, step |-> 0, vl |-> MaxLoss]
\* Contents of bestModel/mc2.keras: the weights and the optimizer state
\* (the count of optimizer steps taken) of the saved model.
NoFile == [weights |-> [ep |-> -2, step |-> 0, vl |-> NaN], optimizer |-> -1]
StaleFile == [weights |-> [ep |-> -1, step |-> 0, vl |-> 1], optimizer |-> 0]
NoScores == [loss |-> None, accuracy |-> None]

VARIABLES pc, epoch, batch, weights, opt_iterations, val_loss, stop_training,
          es_wait, es_best, es_best_epoch, es_stopped_epoch, es_calls,
          mc_best, mc_epoch, mc_calls, file,
          hist_len, hist_min, hist_at_ckpt, scores, predicted

vars == <<pc, epoch, batch, weights, opt_iterations, val_loss, stop_training,
          es_wait, es_best, es_best_epoch, es_stopped_epoch, es_calls,
          mc_best, mc_epoch, mc_calls, file,
          hist_len, hist_min, hist_at_ckpt, scores, predicted>>

es_vars == <<es_wait, es_best, es_best_epoch, es_stopped_epoch, es_calls>>
mc_vars == <<mc_best, mc_epoch, mc_calls, file>>
hist_vars == <<hist_len, hist_min, hist_at_ckpt>>
main_vars == <<scores, predicted>>

\* --------------------------------------------------------------- operators
\* np.less on floats: any comparison with NaN is False.
Less(a, b) == a # NaN /\ b # NaN /\ a < b

\* A min_delta of one loss unit instead of the default 0.
ES_IsImprovement_MinDelta(current, best) == Less(IF current = NaN THEN NaN ELSE current + 1, best)

\* EarlyStopping._is_improvement: monitor_op(current - min_delta, best),
\* monitor 'val_loss' (default), mode auto -> np.less, min_delta 0.
ES_IsImprovement(current, best) == Less(IF current = NaN THEN NaN ELSE current - MinDelta, best)

\* save_best_only left at its default False: every epoch counts as one to save.
MC_IsImprovement_Always(current, best) == TRUE

\* np.less_equal in place of np.less: a tie counts as an improvement.
MC_IsImprovement_LessEq(current, best) == current # NaN /\ best # NaN /\ current <= best

\* ModelCheckpoint(monitor='val_loss', mode='min'): monitor_op(current, best).
MC_IsImprovement(current, best) == Less(current, best)

\* wait > patience in place of wait >= patience.
ES_ShouldStop_Late(wait, ep) == wait > Patience /\ ep > 0

\* EarlyStopping.on_epoch_end: "if self.wait >= self.patience and epoch > 0".
ES_ShouldStop(wait, ep) == wait >= Patience /\ ep > 0

\* fit's epoch loop: "for epoch in range(epochs)" with "if stop_training: break".
LoopEnds(ep, stop) == stop \/ ep + 1 >= Epoches

\* The loop breaking on stop_training before the remaining callbacks run.
AfterEarlyStopping_BreakFirst(stop) == IF stop THEN "history" ELSE "checkpoint"

\* The callback that runs after EarlyStopping in callbacks=[early_stopping, checkpoint].
AfterEarlyStopping(stop) == "checkpoint"

\* What the optimizer can produce from parameters w: NaN parameters stay NaN;
\* otherwise the new parameters' loss is NaN (divergence), or it is below, equal
\* to or above m, the lowest loss recorded so far (every order relation the
\* callbacks can observe; the first epoch starts at the top of the scale).
TrainedLosses(w, m) ==
    IF w.vl = NaN THEN {NaN}
    ELSE {NaN} \cup ({m - 1, m, m + 1} \cap FiniteLoss)

\* What ModelCheckpoint writes: model.save stores the whole live model at
\* on_epoch_end, its weights and its optimizer state.
Snapshot(w, it) == [weights |-> w, optimizer |-> it]

\* The reload left out: the live parameters stay in use.
Loaded_Live(w, f) == w

\* model.load_weights("bestModel/mc2.keras"): the weights of the archive
\* replace the live ones; the optimizer state in the archive is not read.
Loaded(w, f) == f.weights

\* fit's validation pass over validation_data=(X_test, Y_test): logs['val_loss'].
ValidationLoss(w) == w.vl

\* model.evaluate(X_test, Y_test): the [loss, accuracy] it can return for the
\* parameters in use; the accuracy is not tied to anything recorded earlier.
Evaluate(w) == {[loss |-> w.vl, accuracy |-> a] : a \in Accuracy}

\* min() over the numbers of the history, Inf when there is none.
HistMin(m, l) == IF Less(l, m) THEN l ELSE m

\* --------------------------------------------------------------------- Init
Init ==
    /\ pc = "train"
    /\ epoch = 0
    /\ batch = 0
    /\ weights = InitWeights
    /\ opt_iterations = 0
    /\ val_loss = None
    /\ stop_training = FALSE
    /\ es_wait = 0
    /\ es_best = Inf
    /\ es_best_epoch = 0
    /\ es_stopped_epoch = 0
    /\ es_calls = 0
    /\ mc_best = Inf
    /\ mc_epoch = -1
    /\ mc_calls = 0
    /\ file \in {NoFile, StaleFile}
    /\ hist_len = 0
    /\ hist_min = Inf
    /\ hist_at_ckpt = Inf
    /\ scores = NoScores
    /\ predicted = FALSE

\* ------------------------------------------------------------------ actions
\* One minibatch of data_gen.flow(...): forward, backward, optimizer step.
TrainBatch ==
    /\ pc = "train"
    /\ batch < StepsPerEpoch
    /\ \E l \in TrainedLosses(weights, hist_min) :
         weights' = [ep |-> epoch + 1, step |-> batch + 1, vl |-> l]
    /\ opt_iterations' = opt_iterations + 1
    /\ batch' = batch + 1
    /\ pc' = IF batch + 1 = StepsPerEpoch THEN "validate" ELSE "train"
    /\ UNCHANGED <<epoch, val_loss, stop_training, es_vars, mc_vars, hist_vars, main_vars>>

\* Validation pass over validation_data=(X_test, Y_test) at the end of the epoch.
Validate ==
    /\ pc = "validate"
    /\ val_loss' = ValidationLoss(weights)
    /\ pc' = "early_stopping"
    /\ UNCHANGED <<epoch, batch, weights, opt_iterations, stop_training, es_vars, mc_vars, hist_vars, main_vars>>

\* EarlyStopping.on_epoch_end(epoch, logs).
EarlyStoppingOnEpochEnd ==
    /\ pc = "early_stopping"
    /\ es_calls' = es_calls + 1
    /\ IF ES_IsImprovement(val_loss, es_best)
       THEN /\ es_best' = val_loss
            /\ es_best_epoch' = epoch
            /\ es_wait' = 0
            /\ UNCHANGED <<es_stopped_epoch, stop_training>>
       ELSE /\ es_wait' = es_wait + 1
            /\ IF ES_ShouldStop(es_wait + 1, epoch)
               THEN es_stopped_epoch' = epoch /\ stop_training' = TRUE
               ELSE UNCHANGED <<es_stopped_epoch, stop_training>>
            /\ UNCHANGED <<es_best, es_best_epoch>>
    /\ pc' = AfterEarlyStopping(stop_training')
    /\ UNCHANGED <<epoch, batch, weights, opt_iterations, val_loss, mc_vars, hist_vars, main_vars>>

\* ModelCheckpoint.on_epoch_end, improvement: model.save(filepath, overwrite=True).
ModelCheckpointSave ==
    /\ pc = "checkpoint"
    /\ MC_IsImprovement(val_loss, mc_best)
    /\ mc_calls' = mc_calls + 1
    /\ mc_best' = val_loss
    /\ mc_epoch' = epoch
    /\ file' = Snapshot(weights, opt_iterations)
    /\ pc' = "history"
    /\ UNCHANGED <<epoch, batch, weights, opt_iterations, val_loss, stop_training, es_vars, hist_vars, main_vars>>

\* ModelCheckpoint.on_epoch_end, improvement, but the write raises (storage
\* unavailable): best is assigned before save is called, nothing catches the
\* exception, and it leaves fit and main.
ModelCheckpointSaveFails ==
    /\ pc = "checkpoint"
    /\ MC_IsImprovement(val_loss, mc_best)
    /\ mc_calls' = mc_calls + 1
    /\ mc_best' = val_loss
    /\ pc' = "save_raised"
    /\ UNCHANGED <<epoch, batch, weights, opt_iterations, val_loss, stop_training, es_vars, mc_epoch, file, hist_vars, main_vars>>

\* ModelCheckpoint.on_epoch_end, no improvement: "val_loss did not improve".
ModelCheckpointSkip ==
    /\ pc = "checkpoint"
    /\ ~MC_IsImprovement(val_loss, mc_best)
    /\ mc_calls' = mc_calls + 1
    /\ pc' = "history"
    /\ UNCHANGED <<epoch, batch, weights, opt_iterations, val_loss, stop_training, es_vars, mc_best, mc_epoch, file, hist_vars, main_vars>>

\* History.on_epoch_end: history['val_loss'].append(logs['val_loss']).
HistoryOnEpochEnd ==
    /\ pc = "history"
    /\ hist_len' = hist_len + 1
    /\ hist_min' = HistMin(hist_min, val_loss)
    /\ hist_at_ckpt' = IF mc_epoch = epoch THEN val_loss ELSE hist_at_ckpt
    /\ pc' = "epoch_end"
    /\ UNCHANGED <<epoch, batch, weights, opt_iterations, val_loss, stop_training, es_vars, mc_vars, main_vars>>

\* fit's loop: next epoch.
NextEpoch ==
    /\ pc = "epoch_end"
    /\ ~LoopEnds(epoch, stop_training)
    /\ epoch' = epoch + 1
    /\ batch' = 0
    /\ pc' = "train"
    /\ UNCHANGED <<weights, opt_iterations, val_loss, stop_training, es_vars, mc_vars, hist_vars, main_vars>>

\* fit's loop ends (stop_training or range exhausted); train returns the history.
FitReturns ==
    /\ pc = "epoch_end"
    /\ LoopEnds(epoch, stop_training)
    /\ pc' = "load_weights"
    /\ UNCHANGED <<epoch, batch, weights, opt_iterations, val_loss, stop_training, es_vars, mc_vars, hist_vars, main_vars>>

\* main: model.load_weights("bestModel/mc2.keras"), the file exists.
LoadWeights ==
    /\ pc = "load_weights"
    /\ file # NoFile
    /\ weights' = Loaded(weights, file)
    /\ pc' = "evaluate"
    /\ UNCHANGED <<epoch, batch, opt_iterations, val_loss, stop_training, es_vars, mc_vars, hist_vars, main_vars>>

\* main: model.load_weights raises, there is no file at that path.
LoadWeightsFails ==
    /\ pc = "load_weights"
    /\ file = NoFile
    /\ pc' = "load_raised"
    /\ UNCHANGED <<epoch, batch, weights, opt_iterations, val_loss, stop_training, es_vars, mc_vars, hist_vars, main_vars>>

\* main: evaluate(model, X_test, Y_test).
EvaluateModel ==
    /\ pc = "evaluate"
    /\ scores' \in Evaluate(weights)
    /\ pc' = "predict"
    /\ UNCHANGED <<epoch, batch, weights, opt_iterations, val_loss, stop_training, es_vars, mc_vars, hist_vars, predicted>>

\* main: model.predict(data).
Predict ==
    /\ pc = "predict"
    /\ predicted' = TRUE
    /\ pc' = "done"
    /\ UNCHANGED <<epoch, batch, weights, opt_iterations, val_loss, stop_training, es_vars, mc_vars, hist_vars, scores>>

Next ==
    \/ TrainBatch
    \/ Validate
    \/ EarlyStoppingOnEpochEnd
    \/ ModelCheckpointSave
    \/ ModelCheckpointSaveFails
    \/ ModelCheckpointSkip
    \/ HistoryOnEpochEnd
    \/ NextEpoch
    \/ FitReturns
    \/ LoadWeights
    \/ LoadWeightsFails
    \/ EvaluateModel
    \/ Predict

Spec == Init /\ [][Next]_vars

\* The program is one sequential thread: whenever a step is possible it is taken.
FairSpec == Spec /\ WF_vars(Next)

\* ------------------------------------------------------------------- claims
\* Positions of main after train() has returned normally.
AfterFit == {"load_weights", "load_raised", "evaluate", "predict", "done"}
\* Positions between an epoch's validation pass and its History record.
InCallbacks == {"early_stopping", "checkpoint", "history"}
\* An epoch has been completed and no callback is half-way through.
EpochCompleted == hist_len >= 1 /\ pc \notin InCallbacks /\ pc # "save_raised"
\* Number (1-based) of the epoch of the last checkpoint write, 0 when none.
LastWriteEpochNo == mc_epoch + 1

\* C1: once the loop has ended and some numeric validation loss was observed,
\* the file holds the end-of-epoch parameters of the epoch whose recorded loss
\* is the lowest of the run, and evaluate/predict run on the parameters
\* reloaded from the file.
C1_BestCheckpointUsed ==
    /\ (pc \in AfterFit /\ hist_min # Inf) =>
          /\ file.weights.ep = LastWriteEpochNo
          /\ file.weights.ep >= 1
          /\ file.weights.step = StepsPerEpoch
          /\ file.optimizer = LastWriteEpochNo * StepsPerEpoch
          /\ file.weights.vl = hist_min
          /\ hist_at_ckpt = hist_min
    /\ pc \in {"evaluate", "predict", "done"} => weights = file.weights
    /\ pc \in {"predict", "done"} => scores.loss = file.weights.vl

\* A run stopped by patience whose live parameters (epoch 12) were worse than
\* the checkpoint (epoch 2) that was evaluated.
C1_Witness ==
    /\ pc = "done"
    /\ stop_training
    /\ hist_len = 12
    /\ file.weights.ep = 2
    /\ val_loss > file.weights.vl
    /\ weights = file.weights
    /\ scores.loss = hist_min

\* The loop has run no more than Epoches epochs and no more than Patience
\* epochs past the last checkpoint-worthy epoch.
C2_Bounded ==
    /\ epoch + 1 <= Epoches
    /\ hist_len <= Epoches
    /\ (epoch + 1) - LastWriteEpochNo <= Patience
    /\ (pc = "train" /\ batch = 0 /\ hist_len >= 1) => hist_len - LastWriteEpochNo < Patience

\* The loop ended at epoch 200 exactly Patience epochs after the last improvement.
C2_Witness ==
    /\ pc = "done"
    /\ hist_len = Epoches
    /\ stop_training
    /\ hist_len - LastWriteEpochNo = Patience

\* C2: for every sequence of validation losses the loop stays within the cap
\* of Epoches epochs and within Patience epochs of the last improvement, and
\* the run reaches a final position.
C2_HaltsWithinPatience ==
    /\ []C2_Bounded
    /\ <>(pc \in {"done", "load_raised", "save_raised"})

\* C3: after every completed epoch, the loss the history holds for the epoch
\* of the last checkpoint write is a number no greater than any recorded loss.
C3_BestIsMinimum ==
    (EpochCompleted /\ mc_epoch # -1) =>
        /\ hist_at_ckpt \in FiniteLoss
        /\ hist_at_ckpt <= hist_min
        /\ ~Less(val_loss, hist_at_ckpt)

\* Epoch 9 completed, six epochs after the write of epoch 3, with a worse loss in the last one.
C3_Witness ==
    /\ pc = "epoch_end"
    /\ hist_len = 9
    /\ mc_epoch = 2
    /\ val_loss > hist_at_ckpt
    /\ hist_at_ckpt = hist_min

\* C4 (as stated): a checkpoint decision that raises nothing writes the file
\* iff the loss is strictly lower than the best so far or no checkpoint has
\* been written yet.
C4_Original ==
    [][(pc = "checkpoint" /\ pc' = "history") =>
         ((file' # file) <=> ((val_loss # NaN /\ val_loss < mc_best) \/ mc_epoch = -1))]_vars

\* C4 (amended): the write is attempted iff the loss is strictly lower than the
\* best so far, the best being +infinity until the first write, so that a NaN
\* loss writes nothing even when no checkpoint exists; a write that succeeds
\* replaces the one file by the live parameters and sets the tracker, one that
\* raises leaves the file as it was; otherwise (ties too) file and tracker are
\* left alone, and no other step touches them.
C4_WriteIffStrictlyLower ==
    [][/\ pc = "checkpoint" =>
            IF val_loss # NaN /\ val_loss < mc_best
            THEN \/ /\ pc' = "history"
                    /\ file'.weights = weights /\ file' # file
                    /\ mc_best' = val_loss /\ mc_epoch' = epoch
                 \/ /\ pc' = "save_raised"
                    /\ UNCHANGED <<file, mc_epoch>>
            ELSE pc' = "history" /\ UNCHANGED <<file, mc_best, mc_epoch>>
       /\ pc # "checkpoint" => UNCHANGED <<file, mc_best, mc_epoch>>]_vars

\* The checkpoint decision of an epoch whose loss ties the best of an earlier
\* epoch has left the earlier file in place.
C4_Witness ==
    /\ pc = "history"
    /\ val_loss = mc_best
    /\ mc_epoch < epoch
    /\ file.weights.ep = mc_epoch + 1
    /\ file.weights.vl = val_loss

\* C6: with no checkpoint written by this run, main never gets past load_weights.
C6_NoCheckpointNoEvaluation ==
    mc_epoch = -1 => pc \notin {"evaluate", "predict", "done"}

\* C7: after an epoch with a non-finite loss no further minibatch is trained
\* and no checkpoint is written.
C7_AbortOnNonFinite ==
    /\ ~(pc = "train" /\ hist_len >= 1 /\ val_loss = NaN)
    /\ (pc = "history" /\ val_loss = NaN) => mc_epoch # epoch

\* C8: after a checkpoint write has raised, the run can still take a step.
C8_WriteFailureRecoverable ==
    pc = "save_raised" => ENABLED Next

\* C9: validation follows all minibatches of its epoch; a minibatch is only
\* processed when both decisions of every earlier epoch are made and no stop
\* is decided; both decisions are made in the last epoch, stopped or capped.
C9_Sequential ==
    /\ pc = "validate" => (batch = StepsPerEpoch /\ weights.ep = epoch + 1 /\ weights.step = StepsPerEpoch)
    /\ pc = "early_stopping" => (val_loss = ValidationLoss(weights) /\ weights.step = StepsPerEpoch)
    /\ pc = "train" => (es_calls = epoch /\ mc_calls = epoch /\ hist_len = epoch /\ ~stop_training)
    /\ pc = "train" => weights.ep \in {epoch, epoch + 1}
    /\ stop_training => pc \notin {"train", "validate"}
    /\ pc \in AfterFit => (es_calls = epoch + 1 /\ mc_calls = epoch + 1 /\ hist_len = epoch + 1)
    /\ pc \in AfterFit => (stop_training \/ hist_len = Epoches)

\* The 200th epoch ran to the cap without a stop, its checkpoint decision made.
C9_Witness ==
    /\ pc = "load_weights"
    /\ ~stop_training
    /\ hist_len = Epoches
    /\ mc_calls = Epoches
    /\ es_calls = Epoches

\* C10: after every completed epoch the early-stop counter is the number of
\* epochs since the last checkpoint write, both callbacks hold the same best,
\* and a stop is decided exactly Patience epochs after the last write.
C10_CounterAgrees ==
    /\ EpochCompleted =>
          /\ es_wait = hist_len - LastWriteEpochNo
          /\ es_best = mc_best
          /\ (mc_epoch # -1 => es_best_epoch = mc_epoch)
          /\ (stop_training <=> es_wait >= Patience)
          /\ (stop_training => es_stopped_epoch + 1 = LastWriteEpochNo + Patience)
    /\ pc = "history" => ((es_wait = 0) <=> (mc_epoch = epoch))

\* Best at epoch 25, stop at epoch 35, the epoch-25 checkpoint in the file.
C10_Witness ==
    /\ pc = "done"
    /\ stop_training
    /\ LastWriteEpochNo = 25
    /\ es_stopped_epoch + 1 = 35
    /\ hist_len = 35
    /\ file.weights.ep = 25

====
